---- MODULE Spec2Model ----
(***************************************************************************)
(* Model of src/parsing/continue_statement.rs:                             *)
(*                                                                         *)
(*   pub(super) fn continue_statement(input: &str) -> Res<&str, Stmt> {    *)
(*       context(                                                          *)
(*           "continue_statement",                                         *)
(*           tuple((tag("continue"), ws0, tag(";"))),                      *)
(*       )(input).map(|(next, val)| (next, Stmt::Continue))                *)
(*   }                                                                     *)
(*                                                                         *)
(* A &str cursor is the sequence of the characters that remain.  A result  *)
(* is a record: ok (Ok / Err), mode ("Ok", or the Err variant "Error" /    *)
(* "Failure"), rest and val (the Ok pair), errors (the error's list of     *)
(* (input, kind) entries, in push order: the terminal cause first, every   *)
(* context frame appended after it).                                       *)
(***************************************************************************)
EXTENDS Integers, Sequences, FiniteSets, TLC

VARIABLES input, pc, inner, res, trace

vars == <<input, pc, inner, res, trace>>

\* ------------------------------------------------------------------ bounds
MaxWs == 3
MaxRest == 2

\* ------------------------------------------------------ result constructors
Ok(rest, val) ==
    [ok |-> TRUE, mode |-> "Ok", rest |-> rest, val |-> val, errors |-> <<>>]

Err(mode, errors) ==
    [ok |-> FALSE, mode |-> mode, rest |-> <<>>, val |-> <<>>, errors |-> errors]

\* one entry of the error list: the cursor it was raised at, and its kind
ErrorEntry(at, kind, code) == [input |-> at, kind |-> kind, code |-> code]

Keyword == <<"c", "o", "n", "t", "i", "n", "u", "e">>
Semi == <<";">>
Label == "continue_statement"
Continue == <<"Continue">>
Unit == <<>>

DropN(s, n) == SubSeq(s, n + 1, Len(s))

\* ------------------------------------------------------------- combinators
\* Mutant: the literal is searched for instead of being anchored at the cursor.
RECURSIVE tag_scan(_, _)
tag_scan(t, i) ==
    IF Len(i) >= Len(t) /\ SubSeq(i, 1, Len(t)) = t
    THEN Ok(DropN(i, Len(t)), t)
    ELSE IF Len(i) = 0
         THEN Err("Error", <<ErrorEntry(i, "Nom", "Tag")>>)
         ELSE LET r == tag_scan(t, Tail(i))
              IN IF r.ok THEN r ELSE Err("Error", <<ErrorEntry(i, "Nom", "Tag")>>)

\* Mutant: a mismatch is raised as an unrecoverable Failure (as under cut).
tag_cut(t, i) ==
    IF Len(i) >= Len(t) /\ SubSeq(i, 1, Len(t)) = t
    THEN Ok(DropN(i, Len(t)), t)
    ELSE Err("Failure", <<ErrorEntry(i, "Nom", "Tag")>>)

\* Mutant: off by one, the last character of the literal is neither compared
\* nor consumed.
tag_short(t, i) ==
    IF Len(i) >= Len(t) - 1 /\ SubSeq(i, 1, Len(t) - 1) = SubSeq(t, 1, Len(t) - 1)
    THEN Ok(DropN(i, Len(t) - 1), SubSeq(t, 1, Len(t) - 1))
    ELSE Err("Error", <<ErrorEntry(i, "Nom", "Tag")>>)

\* Mutant: the first letter is compared without regard to case.
tag_no_case(t, i) ==
    IF /\ Len(i) >= Len(t)
       /\ \/ SubSeq(i, 1, Len(t)) = t
          \/ /\ Len(t) > 0
             /\ t[1] = "c"
             /\ i[1] = "C"
             /\ Tail(SubSeq(i, 1, Len(t))) = Tail(t)
    THEN Ok(DropN(i, Len(t)), SubSeq(i, 1, Len(t)))
    ELSE Err("Error", <<ErrorEntry(i, "Nom", "Tag")>>)

\* tag(t), the complete-input literal parser the production is built from:
\* the cursor starts with t: Ok((rest, t)); otherwise, a cursor shorter than t
\* included, a recoverable Err::Error holding (cursor, Nom(Tag)).  The kind
\* does not name the literal; the cursor tells which tag raised it.
tag(t, i) ==
    IF Len(i) >= Len(t) /\ SubSeq(i, 1, Len(t)) = t
    THEN Ok(DropN(i, Len(t)), t)
    ELSE Err("Error", <<ErrorEntry(i, "Nom", "Tag")>>)

Whitespace == {" ", "\t", "\r", "\n"}

RECURSIVE SkipWhitespace(_)
SkipWhitespace(i) ==
    IF Len(i) > 0 /\ Head(i) \in Whitespace THEN SkipWhitespace(Tail(i)) ELSE i

\* ws0 (defined in the parent module, outside this file): zero or more
\* whitespace characters; never fails; yields ().
ws0(i) == Ok(SkipWhitespace(i), Unit)

\* Mutant: the frame is recorded at the cursor of the inner failure.
context_at_failure(ctx, i, r) ==
    IF r.ok
    THEN r
    ELSE Err(r.mode, Append(r.errors, ErrorEntry(r.errors[1].input, "Context", ctx)))

\* Mutant: the failure is passed on without a frame.
context_nolabel(ctx, i, r) == r

\* Mutant: the frame is put in front of the inner entries.
context_prepend(ctx, i, r) ==
    IF r.ok
    THEN r
    ELSE Err(r.mode, <<ErrorEntry(i, "Context", ctx)>> \o r.errors)

\* context(ctx, f)(i), r being f(i): Ok passes through; Err::Error and
\* Err::Failure keep their variant and get (i, Context(ctx)) appended.
context(ctx, i, r) ==
    IF r.ok
    THEN r
    ELSE Err(r.mode, Append(r.errors, ErrorEntry(i, "Context", ctx)))

\* The three parsers of the tuple, by name.
Step(step, i) ==
    CASE step = "tag_continue" -> tag(Keyword, i)
      [] step = "ws0" -> ws0(i)
      [] step = "tag_semi" -> tag(Semi, i)

\* Mutant: the whitespace parser is left out of the sequence.
tuple_skip_ws(step, r) ==
    IF ~r.ok
    THEN "context"
    ELSE CASE step = "tag_continue" -> "tag_semi"
           [] step = "ws0" -> "tag_semi"
           [] step = "tag_semi" -> "context"

\* Mutant: the sequence goes on after a failed parser.
tuple_noshort(step, r) ==
    CASE step = "tag_continue" -> "ws0"
      [] step = "ws0" -> "tag_semi"
      [] step = "tag_semi" -> "context"

\* tuple((a, b, c)): what runs after parser `step` returned r: the next parser
\* of the sequence, or the return to the caller (context) on the first Err
\* (the ? operator) and after the last parser.
tuple_next(step, r) ==
    IF ~r.ok
    THEN "context"
    ELSE CASE step = "tag_continue" -> "ws0"
           [] step = "ws0" -> "tag_semi"
           [] step = "tag_semi" -> "context"

\* tuple: the result so far (acc) combined with the result r of the parser
\* that ran on acc.rest: the cursor is threaded, the values are collected; an
\* Err is returned as it is.
tuple_acc(acc, r) ==
    IF ~acc.ok THEN acc
    ELSE IF r.ok THEN Ok(r.rest, Append(acc.val, r.val)) ELSE r

RECURSIVE tuple_run(_, _)
tuple_run(step, acc) ==
    IF step = "context"
    THEN acc
    ELSE LET r == Step(step, acc.rest)
         IN tuple_run(tuple_next(step, r), tuple_acc(acc, r))

\* tuple((tag("continue"), ws0, tag(";")))(i)
tuple(i) == tuple_run("tag_continue", Ok(i, <<>>))

\* .map(|(next, val)| (next, Stmt::Continue))
map_continue(r) == IF r.ok THEN Ok(r.rest, Continue) ELSE r

continue_statement(i) == map_continue(context(Label, i, tuple(i)))

\* ------------------------------------------------------------------ inputs
SeqsUpTo(S, n) == UNION {[1..k -> S] : k \in 0..n}

\* how an input begins: nothing, a cut keyword, the keyword, the keyword
\* after a blank, the keyword with a capital
Prefixes ==
    { <<>>,
      <<"c", "o", "n", "t", "i", "n", "u">>,
      Keyword,
      <<" ">> \o Keyword,
      <<"C">> \o Tail(Keyword) }

WsChars == {" ", "\n"}
RestChars == {";", "d", "1", "_", "="}

Inputs ==
    {p \o w \o r : p \in Prefixes, w \in SeqsUpTo(WsChars, MaxWs),
                   r \in SeqsUpTo(RestChars, MaxRest)}

NoResult == Ok(<<>>, <<>>)

\* ------------------------------------------------------------------ actions
Init ==
    /\ input \in Inputs
    /\ pc = "tag_continue"
    /\ inner = Ok(input, <<>>)
    /\ res = NoResult
    /\ trace = <<>>

\* one parser of the tuple runs on the cursor the previous one left
RunStep(step) ==
    /\ pc = step
    /\ LET r == Step(step, inner.rest)
       IN /\ inner' = tuple_acc(inner, r)
          /\ trace' = Append(trace, [step |-> step, at |-> inner.rest,
                                     ok |-> r.ok, rest |-> r.rest])
          /\ pc' = tuple_next(step, r)
    /\ UNCHANGED <<input, res>>

TagContinue == RunStep("tag_continue")

Ws0 == RunStep("ws0")

TagSemi == RunStep("tag_semi")

\* the tuple has returned to context
ContextReturn ==
    /\ pc = "context"
    /\ res' = context(Label, input, inner)
    /\ pc' = "map"
    /\ UNCHANGED <<input, inner, trace>>

\* .map(...) on the Result; continue_statement returns
MapReturn ==
    /\ pc = "map"
    /\ res' = map_continue(res)
    /\ pc' = "done"
    /\ UNCHANGED <<input, inner, trace>>

Next ==
    \/ TagContinue
    \/ Ws0
    \/ TagSemi
    \/ ContextReturn
    \/ MapReturn

Spec == Init /\ [][Next]_vars

\* ------------------------------------------------- vocabulary of the claims
StartsWithKeyword(i) == Len(i) >= 8 /\ SubSeq(i, 1, 8) = Keyword

\* i is "continue", n whitespace characters, ";", anything
ContinueForm(i, n) ==
    /\ StartsWithKeyword(i)
    /\ Len(i) >= 9 + n
    /\ \A k \in 9..(8 + n) : i[k] \in Whitespace
    /\ i[9 + n] = ";"

\* i is "continue", whitespace, end of input
NoSemiForm(i) ==
    /\ StartsWithKeyword(i)
    /\ \A k \in 9..Len(i) : i[k] \in Whitespace

\* exactly n whitespace characters follow the keyword
WsRun(i, n) ==
    /\ StartsWithKeyword(i)
    /\ Len(i) >= 8 + n
    /\ \A k \in 9..(8 + n) : i[k] \in Whitespace
    /\ (Len(i) > 8 + n => i[9 + n] \notin Whitespace)

IdentContinue == {"c", "o", "n", "t", "i", "u", "e", "d", "C", "1", "_"}

IsContext(e) == e.kind = "Context"
ContextFrames(errors) == SelectSeq(errors, IsContext)

IsSuffix(s, i) == Len(s) <= Len(i) /\ s = DropN(i, Len(i) - Len(s))

Consumed == Len(input) - Len(res.rest)

\* ------------------------------------------------------------------ claims

\* C1: on "continue", n whitespace characters, ";" (and whatever follows) the
\* parse succeeds with Stmt::Continue and the remaining cursor starts right
\* after the ';': 9 + n characters are consumed (9 for "continue;", 12 for
\* "continue   ;").
C1_ContinueFormParses ==
    \A n \in 0..Len(input) :
        (pc = "done" /\ ContinueForm(input, n)) =>
            /\ res.ok
            /\ res.val = Continue
            /\ res.rest = DropN(input, 9 + n)
            /\ Consumed = 9 + n

C1_Witness ==
    /\ pc = "done"
    /\ input = Keyword \o <<" ", " ", " ", ";">>
    /\ res.ok
    /\ res.val = Continue
    /\ Consumed = 12

\* C2: on "continue", whitespace, end of input the parse fails; the innermost
\* (first pushed) context frame is "continue_statement" and the terminal cause
\* is the Tag mismatch of tag(";"), raised at the end of the input: a literal
\* mismatch, never an end-of-input cause.
C2_MissingSemiFails ==
    (pc = "done" /\ NoSemiForm(input)) =>
        /\ ~res.ok
        /\ Len(ContextFrames(res.errors)) >= 1
        /\ ContextFrames(res.errors)[1].code = Label
        /\ res.errors[1] = ErrorEntry(<<>>, "Nom", "Tag")
        /\ \A k \in 1..Len(res.errors) : res.errors[k].code \notin {"Eof", "Incomplete"}

C2_Witness ==
    /\ pc = "done"
    /\ input = Keyword \o <<" ", "\n">>
    /\ ~res.ok
    /\ res.errors[1].input = <<>>

\* C3: when the leading "continue" is immediately followed by a letter, a
\* digit or an underscore, the parse does not succeed.
C3_PrefixIndependence ==
    (/\ pc = "done"
     /\ StartsWithKeyword(input)
     /\ Len(input) >= 9
     /\ input[9] \in IdentContinue) => ~res.ok

C3_Witness ==
    /\ pc = "done"
    /\ input = Keyword \o <<"d", ";">>
    /\ ~res.ok

\* C4 as claimed: once "continue" has matched, a failure of the parse is a
\* hard one (Err::Failure), which an alternation does not recover from.
C4_HardFailure ==
    (pc = "done" /\ StartsWithKeyword(input) /\ ~res.ok) => res.mode = "Failure"

\* C4 amended: every failure of continue_statement, the keyword matched or
\* not, is the recoverable Err::Error, which an enclosing alternation answers
\* by trying its next alternative.
C4_RecoverableFailure ==
    (pc = "done" /\ ~res.ok) => res.mode = "Error"

C4_Witness ==
    /\ pc = "done"
    /\ input = Keyword \o <<" ">>
    /\ ~res.ok
    /\ res.mode = "Error"

\* C5 as claimed: every position a failure carries is that of the original
\* input cursor.
C5_OnlyOriginalPosition ==
    (pc = "done" /\ ~res.ok) =>
        \A k \in 1..Len(res.errors) : res.errors[k].input = input

\* C5 amended: the "continue_statement" frame of a failure carries the original
\* input cursor; the terminal cause carries the cursor at which the literal
\* mismatched: the original one when "continue" does not match, the one after
\* the keyword and the whitespace when ';' does not.
C5_FramePositionOriginal ==
    (pc = "done" /\ ~res.ok) =>
        /\ res.errors[Len(res.errors)] = ErrorEntry(input, "Context", Label)
        /\ ~StartsWithKeyword(input) => res.errors[1].input = input
        /\ \A n \in 0..Len(input) :
               WsRun(input, n) => res.errors[1].input = DropN(input, 8 + n)

C5_Witness ==
    /\ pc = "done"
    /\ input = Keyword \o <<" ", "d">>
    /\ ~res.ok
    /\ res.errors[1].input = <<"d">>
    /\ res.errors[2].input = input

\* C6: context changes no control flow: an Err of the tuple comes back as the
\* same variant with the same entries and exactly one more, ("continue_statement",
\* original input), after (outside) them; an Ok comes back with the same
\* remaining cursor and no frame.
C6_ContextTransparent ==
    (pc \in {"map", "done"}) =>
        IF inner.ok
        THEN /\ res.ok
             /\ res.rest = inner.rest
             /\ res.errors = <<>>
        ELSE /\ ~res.ok
             /\ res.mode = inner.mode
             /\ Len(res.errors) = Len(inner.errors) + 1
             /\ SubSeq(res.errors, 1, Len(inner.errors)) = inner.errors
             /\ res.errors[Len(res.errors)] = ErrorEntry(input, "Context", Label)

C6_Witness ==
    /\ pc = "map"
    /\ ~inner.ok
    /\ Len(inner.errors) = 1
    /\ Len(res.errors) = 2
    /\ res.errors[2].kind = "Context"

\* C7: on success the remaining cursor is a suffix of the input and at least
\* 9 characters were consumed.
C7_CursorAdvances ==
    (pc = "done" /\ res.ok) =>
        /\ IsSuffix(res.rest, input)
        /\ Consumed >= 9

C7_Witness ==
    /\ pc = "done"
    /\ res.ok
    /\ input = Keyword \o <<";", "=">>
    /\ Consumed = 9

\* C9: the parsers run in the order tag("continue"), ws0, tag(";"), each on
\* the cursor the one before left; when the input does not start with
\* "continue" only the first runs and its Tag mismatch at the input is the
\* result; ws0 never fails; a failure is a Tag mismatch of one of the literals.
C9_OrderedShortCircuit ==
    (pc \in {"context", "map", "done"}) =>
        /\ Len(trace) \in 1..3
        /\ \A k \in 1..Len(trace) :
               /\ trace[k].step = <<"tag_continue", "ws0", "tag_semi">>[k]
               /\ trace[k].at = IF k = 1 THEN input ELSE trace[k - 1].rest
               /\ trace[k].step = "ws0" => trace[k].ok
               /\ k < Len(trace) => trace[k].ok
        /\ IF StartsWithKeyword(input)
           THEN Len(trace) = 3
           ELSE /\ Len(trace) = 1
                /\ inner = Err("Error", <<ErrorEntry(input, "Nom", "Tag")>>)
        /\ ~inner.ok =>
               /\ ~trace[Len(trace)].ok
               /\ trace[Len(trace)].step \in {"tag_continue", "tag_semi"}
               /\ inner.errors = <<ErrorEntry(trace[Len(trace)].at, "Nom", "Tag")>>

C9_Witness ==
    /\ pc = "done"
    /\ input = <<"c", "o", "n", "t", "i", "n", "u", " ", ";">>
    /\ Len(trace) = 1
    /\ ~res.ok

\* C10: the parse succeeds exactly on the inputs that are "continue" at the
\* first character, whitespace, ';'; and then the remaining cursor is all that
\* follows the first ';'.
FirstSemi(i) == CHOOSE k \in 1..Len(i) : i[k] = ";" /\ \A j \in 1..(k - 1) : i[j] # ";"

C10_ExactLanguage ==
    (pc = "done") =>
        /\ res.ok <=> \E n \in 0..Len(input) : ContinueForm(input, n)
        /\ res.ok => res.rest = DropN(input, FirstSemi(input))

C10_Witness ==
    /\ pc = "done"
    /\ input = <<" ">> \o Keyword \o <<";">>
    /\ ~res.ok

====
